---- MODULE Spec2Model ----
(***************************************************************************)
(* Model of tkinter-helpers: table.Table (rows of widgets placed in a Tk   *)
(* grid) and simpletable.SimpleTable (title row, row selection, commands). *)
(*                                                                         *)
(* The Python heap is modelled by `objs`: one entry per call of a row      *)
(* generator, holding the widgets that call created.  A widget is the pair *)
(* <<rid, c>> (rid: index in objs, c: 1-based column).  `widgets` is       *)
(* Table.widgets: the list of row objects, by rid.  Python list indices    *)
(* are 0-based and may be negative; TLA+ sequences are 1-based.            *)
(***************************************************************************)
EXTENDS Integers, Sequences, FiniteSets, TLC

\* ---------------------------------------------------------------- bounds
MaxCreated == 3
MaxSet == 1
MaxSetRow == 2
MaxViewCreated == 3
MaxRows == 3
MaxData == 2

\* ---------------------------------------------------------------- inputs
Values == {"", "x"}
Widths == 0..2

\* ------------------------------------------------------------- constants
NoGrid == -1
None == << >>
OK == "none"
COLOR_UNSELECTED == "white"
COLOR_SELECTED == "deepskyblue"

VARIABLES objs, widgets, last, snap, writes,
          selected_widget, new_row_generator, insert_row_generator,
          read_only, mark_selected_row, right_click_menu

tvars == <<objs, widgets>>
viewvars == <<selected_widget, new_row_generator, insert_row_generator,
              read_only, mark_selected_row, right_click_menu, writes>>
vars == <<objs, widgets, last, snap, writes, selected_widget, new_row_generator,
          insert_row_generator, read_only, mark_selected_row, right_click_menu>>

\* ------------------------------------------------------- Python / Tk glue
Min(a, b) == IF a < b THEN a ELSE b
Max(a, b) == IF a > b THEN a ELSE b

\* lst[i] for a list of length n: the 1-based position, 0 for IndexError
PyIndex(i, n) ==
    IF 0 <= i /\ i < n THEN i + 1
    ELSE IF i < 0 /\ 0 - i <= n THEN n + i + 1
    ELSE 0

\* list.append in the place of list.insert
ListInsert_append(w, i, x) == Append(w, x)

\* list.insert(i, x): the index is clamped, never an error
ListInsert(w, i, x) ==
    LET n == Len(w)
        k == IF i < 0 THEN Max(i + n, 0) ELSE Min(i, n)
    IN SubSeq(w, 1, k) \o <<x>> \o SubSeq(w, k + 1, n)

\* the last element deleted, whatever the index
ListDel_last(w, i) == SubSeq(w, 1, Len(w) - 1)

\* del lst[i], i a valid 1-based position
ListDel(w, i) == SubSeq(w, 1, i - 1) \o SubSeq(w, i + 1, Len(w))

St(o, w, e) == [objs |-> o, widgets |-> w, err |-> e]

\* a freshly created tk.Label / tk.Entry gridded on row pos
NewWidget(cls, pos) ==
    [cls |-> cls, text |-> "", row |-> pos, bg |-> "default", alive |-> TRUE]

\* widget.destroy(): the Tk window is gone, with its options and placement
Destroyed(c) ==
    [cls |-> "", text |-> "", row |-> NoGrid, bg |-> "", alive |-> FALSE]

\* ------------------------------------------------------- row generators
get_readonly_row_generator(columns) == [cls |-> "Label", columns |-> columns]
get_title_row_generator(columns) == get_readonly_row_generator(columns)
get_input_row_generator(columns) == [cls |-> "Entry", columns |-> columns]
get_input_row_generator_centered(columns) == get_input_row_generator(columns)

\* the generators handed to a bare Table
Generators ==
    { get_readonly_row_generator(0), get_title_row_generator(1),
      get_input_row_generator(2), get_input_row_generator_centered(2) }

\* _generate_row(parent, row_position): the new row object is the last of
\* objs.  Tk rejects a negative grid row: the first widget is created, its
\* grid() raises TclError and it is left unplaced.
generate_row(o, gen, row_position) ==
    IF gen.columns = 0
    THEN [objs |-> Append(o, << >>), err |-> OK]
    ELSE IF row_position < 0
    THEN [objs |-> Append(o, << NewWidget(gen.cls, NoGrid) >>),
          err |-> "TclError"]
    ELSE [objs |-> Append(o, [c \in 1..gen.columns |->
                                 NewWidget(gen.cls, row_position)]),
          err |-> OK]

\* ----------------------------------------------------------------- Table
get_row_count(w) == Len(w)

\* the regrid of one row's widgets from column c on: grid_info(), set ROW,
\* grid_forget(), grid(**widget_position)
RECURSIVE RegridWidgets(_, _, _, _)
RegridWidgets(o, rid, c, pos) ==
    IF c > Len(o[rid]) THEN [objs |-> o, err |-> OK]
    ELSE IF ~o[rid][c].alive THEN [objs |-> o, err |-> "TclError"]
    ELSE IF pos < 0
    THEN [objs |-> [o EXCEPT ![rid][c].row = NoGrid], err |-> "TclError"]
    ELSE RegridWidgets([o EXCEPT ![rid][c].row = pos], rid, c + 1, pos)

\* for follow_up_row in range(f, stop): regrid widgets[follow_up_row] to
\* grid row follow_up_row + delta
RECURSIVE RegridRows(_, _, _, _, _)
RegridRows(o, w, f, stop, delta) ==
    IF f >= stop THEN [objs |-> o, err |-> OK]
    ELSE LET i == PyIndex(f, Len(w)) IN
         IF i = 0 THEN [objs |-> o, err |-> "IndexError"]
         ELSE LET r == RegridWidgets(o, w[i], 1, f + delta) IN
              IF r.err # OK THEN r
              ELSE RegridRows(r.objs, w, f + 1, stop, delta)

\* for column in range(len(row)): row[column].destroy()
\* the destroy loop stopping after the first widget of the row
DestroyRow_first_cell(o, rid) ==
    [o EXCEPT ![rid] = [c \in 1..Len(o[rid]) |->
                          IF c = 1 THEN Destroyed(o[rid][c]) ELSE o[rid][c]]]

DestroyRow(o, rid) ==
    [o EXCEPT ![rid] = [c \in 1..Len(o[rid]) |-> Destroyed(o[rid][c])]]

\* add_row placing the new row on grid position row count
add_row_at_count(o, w, gen) ==
    LET g == generate_row(o, gen, get_row_count(w)) IN
    IF g.err # OK THEN St(g.objs, w, g.err)
    ELSE St(g.objs, Append(w, Len(g.objs)), OK)

add_row(o, w, gen) ==
    LET g == generate_row(o, gen, get_row_count(w) + 1) IN
    IF g.err # OK THEN St(g.objs, w, g.err)
    ELSE St(g.objs, Append(w, Len(g.objs)), OK)

RECURSIVE add_rows(_, _, _, _)
add_rows(o, w, number_of_rows, gen) ==
    IF number_of_rows <= 0 THEN St(o, w, OK)
    ELSE LET s == add_row(o, w, gen) IN
         IF s.err # OK THEN s
         ELSE add_rows(s.objs, s.widgets, number_of_rows - 1, gen)

set(o, w, row, column, value) ==
    LET i == PyIndex(row, Len(w)) IN
    IF i = 0 THEN St(o, w, "IndexError")
    ELSE LET j == PyIndex(column, Len(o[w[i]])) IN
         IF j = 0 THEN St(o, w, "IndexError")
         ELSE IF ~o[w[i]][j].alive THEN St(o, w, "TclError")
         ELSE St([o EXCEPT ![w[i]][j].text = value], w, OK)

get(o, w, row, column) ==
    LET i == PyIndex(row, Len(w)) IN
    IF i = 0 THEN [val |-> "", err |-> "IndexError"]
    ELSE LET j == PyIndex(column, Len(o[w[i]])) IN
         IF j = 0 THEN [val |-> "", err |-> "IndexError"]
         ELSE IF ~o[w[i]][j].alive THEN [val |-> "", err |-> "TclError"]
         ELSE [val |-> o[w[i]][j].text, err |-> OK]

get_row(o, w, row) ==
    LET i == PyIndex(row, Len(w)) IN
    IF i = 0 THEN [val |-> << >>, err |-> "IndexError"]
    ELSE LET n == Len(o[w[i]]) IN
         IF \E c \in 0..(n - 1) : get(o, w, row, c).err # OK
         THEN [val |-> << >>, err |-> "TclError"]
         ELSE [val |-> [c \in 1..n |-> get(o, w, row, c - 1).val],
               err |-> OK]

\* for column, value in enumerate(values): self.set(row, column, value)
RECURSIVE SetFrom(_, _, _, _, _)
SetFrom(o, w, row, values, k) ==
    IF k > Len(values) THEN St(o, w, OK)
    ELSE LET s == set(o, w, row, k - 1, values[k]) IN
         IF s.err # OK THEN s
         ELSE SetFrom(s.objs, w, row, values, k + 1)

\* enumerate() started one value late
set_row_skip_first(o, w, row, values) == SetFrom(o, w, row, values, 2)

set_row(o, w, row, values) == SetFrom(o, w, row, values, 1)

\* remove_row without the loop that closes the gap
remove_row_no_regrid(o, w, row) ==
    LET i == PyIndex(row, Len(w)) IN
    IF i = 0 THEN St(o, w, "IndexError")
    ELSE St(DestroyRow(o, w[i]), ListDel(w, i), OK)

remove_row(o, w, row) ==
    LET i == PyIndex(row, Len(w)) IN
    IF i = 0 THEN St(o, w, "IndexError")
    ELSE LET o1 == DestroyRow(o, w[i])
             w1 == ListDel(w, i)
             r == RegridRows(o1, w1, row, get_row_count(w1), 1)
         IN St(r.objs, w1, r.err)

\* insert_row whose loop regrids the following rows where they stand
insert_row_no_shift(o, w, row, gen) ==
    LET r == RegridRows(o, w, row, get_row_count(w), 1) IN
    IF r.err # OK THEN St(r.objs, w, r.err)
    ELSE LET g == generate_row(r.objs, gen, row + 1) IN
         IF g.err # OK THEN St(g.objs, w, g.err)
         ELSE St(g.objs, ListInsert(w, row, Len(g.objs)), OK)

insert_row(o, w, row, gen) ==
    LET r == RegridRows(o, w, row, get_row_count(w), 2) IN
    IF r.err # OK THEN St(r.objs, w, r.err)
    ELSE LET g == generate_row(r.objs, gen, row + 1) IN
         IF g.err # OK THEN St(g.objs, w, g.err)
         ELSE St(g.objs, ListInsert(w, row, Len(g.objs)), OK)

\* replace_row building the new row on grid position `row`
replace_row_at_row(o, w, row, gen) ==
    LET i == PyIndex(row, Len(w)) IN
    IF i = 0 THEN St(o, w, "IndexError")
    ELSE LET o1 == DestroyRow(o, w[i])
             g == generate_row(o1, gen, row)
         IN IF g.err # OK THEN St(g.objs, w, g.err)
            ELSE St(g.objs, [w EXCEPT ![i] = Len(g.objs)], OK)

replace_row(o, w, row, gen) ==
    LET i == PyIndex(row, Len(w)) IN
    IF i = 0 THEN St(o, w, "IndexError")
    ELSE LET o1 == DestroyRow(o, w[i])
             g == generate_row(o1, gen, row + 1)
         IN IF g.err # OK THEN St(g.objs, w, g.err)
            ELSE St(g.objs, [w EXCEPT ![i] = Len(g.objs)], OK)

\* ------------------------------------------------------ call bookkeeping
\* `last` records the call that produced the current state and the error it
\* raised; `snap` keeps the table as it was before an in-range insert_row
\* for as long as the next call is the remove_row of the same index.
NoGen == [cls |-> "", columns |-> 0]

Call(op, row, col, gen, values, err) ==
    [op |-> op, row |-> row, col |-> col, values |-> values, err |-> err,
     target |-> None, data |-> << >>]

\* a call of the view: the widget under the pointer, the title texts, the
\* data rows
ViewCall(op, target, values, data, err) ==
    [op |-> op, row |-> 0, col |-> 0, values |-> values, err |-> err,
     target |-> target, data |-> data]

Idle == [state |-> "none", row |-> 0, objs |-> << >>, widgets |-> << >>]

\* lists of values, up to the length of the widest row
ValueLists == UNION { [1..k -> Values] : k \in Widths }

InsertIdx == 0..Len(widgets)
RowIdx == 0..(Len(widgets) - 1)
AnyIdx == (0 - 2)..MaxCreated

\* ---------------------------------------------------------- Table calls
AddRow(gen) ==
    /\ Len(objs) < MaxCreated
    /\ LET s == add_row(objs, widgets, gen) IN
       /\ objs' = s.objs
       /\ widgets' = s.widgets
       /\ last' = Call("add_row", Len(widgets), 0, gen, << >>, s.err)
    /\ snap' = Idle
    /\ UNCHANGED viewvars

AddRows(n, gen) ==
    /\ Len(objs) + n <= MaxCreated
    /\ LET s == add_rows(objs, widgets, n, gen) IN
       /\ objs' = s.objs
       /\ widgets' = s.widgets
       /\ last' = Call("add_rows", n, 0, gen, << >>, s.err)
    /\ snap' = Idle
    /\ UNCHANGED viewvars

InsertRow(row, gen) ==
    /\ Len(objs) < MaxCreated
    /\ LET s == insert_row(objs, widgets, row, gen) IN
       /\ objs' = s.objs
       /\ widgets' = s.widgets
       /\ last' = Call("insert_row", row, 0, gen, << >>, s.err)
       /\ snap' = IF s.err = OK /\ row \in InsertIdx
                  THEN [state |-> "inserted", row |-> row, objs |-> objs,
                        widgets |-> widgets]
                  ELSE Idle
    /\ UNCHANGED viewvars

RemoveRow(row) ==
    /\ LET s == remove_row(objs, widgets, row) IN
       /\ objs' = s.objs
       /\ widgets' = s.widgets
       /\ last' = Call("remove_row", row, 0, NoGen, << >>, s.err)
    /\ snap' = IF snap.state = "inserted" /\ snap.row = row
               THEN [snap EXCEPT !.state = "undone"]
               ELSE Idle
    /\ UNCHANGED viewvars

ReplaceRow(row, gen) ==
    /\ Len(objs) < MaxCreated
    /\ LET s == replace_row(objs, widgets, row, gen) IN
       /\ objs' = s.objs
       /\ widgets' = s.widgets
       /\ last' = Call("replace_row", row, 0, gen, << >>, s.err)
    /\ snap' = Idle
    /\ UNCHANGED viewvars

SetCell(row, column, value) ==
    /\ writes.set < MaxSet
    /\ writes' = [writes EXCEPT !.set = @ + 1]
    /\ LET s == set(objs, widgets, row, column, value) IN
       /\ objs' = s.objs
       /\ widgets' = s.widgets
       /\ last' = Call("set", row, column, NoGen, <<value>>, s.err)
    /\ snap' = Idle
    /\ UNCHANGED <<selected_widget, new_row_generator, insert_row_generator,
                   read_only, mark_selected_row, right_click_menu>>

SetRow(row, values) ==
    /\ writes.set_row < MaxSetRow
    /\ writes' = [writes EXCEPT !.set_row = @ + 1]
    /\ LET s == set_row(objs, widgets, row, values) IN
       /\ objs' = s.objs
       /\ widgets' = s.widgets
       /\ last' = Call("set_row", row, 0, NoGen, values, s.err)
    /\ snap' = Idle
    /\ UNCHANGED <<selected_widget, new_row_generator, insert_row_generator,
                   read_only, mark_selected_row, right_click_menu>>

\* Table.__init__, no view around it
InitTable ==
    /\ objs = << >>
    /\ widgets = << >>
    /\ last = Call("init", 0, 0, NoGen, << >>, OK)
    /\ snap = Idle
    /\ writes = [set |-> 0, set_row |-> 0]
    /\ selected_widget = None
    /\ new_row_generator = None
    /\ insert_row_generator = None
    /\ read_only = TRUE
    /\ mark_selected_row = TRUE
    /\ right_click_menu = FALSE

\* a Table restructured with in-range indices: add, insert, remove, replace,
\* and single cells written
NextTable ==
    \/ \E gen \in Generators : AddRow(gen)
    \/ \E row \in InsertIdx, gen \in Generators : InsertRow(row, gen)
    \/ \E row \in RowIdx : RemoveRow(row)
    \/ \E row \in RowIdx, gen \in Generators : ReplaceRow(row, gen)
    \/ \E row \in RowIdx, value \in Values :
          \E column \in 0..(Len(objs[widgets[row + 1]]) - 1) :
             SetCell(row, column, value)

SpecTable == InitTable /\ [][NextTable]_vars

\* a Table filled by appending rows, whose rows are then written with value
\* lists shorter than, as long as and longer than the row
NextRows ==
    \/ \E gen \in Generators : AddRow(gen)
    \/ \E n \in 0..2, gen \in Generators : AddRows(n, gen)
    \/ \E row \in RowIdx, values \in ValueLists :
          SetRow(row, values)

SpecRows == InitTable /\ [][NextRows]_vars

\* a Table restructured with any index, in range or not
NextTableAny ==
    \/ \E gen \in Generators : AddRow(gen)
    \/ \E n \in 0..2, gen \in Generators : AddRows(n, gen)
    \/ \E row \in AnyIdx, gen \in Generators : InsertRow(row, gen)
    \/ \E row \in AnyIdx : RemoveRow(row)
    \/ \E row \in AnyIdx, gen \in Generators : ReplaceRow(row, gen)

SpecTableAny == InitTable /\ [][NextTableAny]_vars

\* ----------------------------------------------------------- SimpleTable
\* a widget of the view that is not placed by grid (the table frame, the
\* footer, the New button): its grid_info() is empty
Other == <<0, 0>>

\* the widgets a pointer event can carry: the live cells of the table and
\* the widgets around them
Targets ==
    { t \in { <<widgets[i], c>> : i \in 1..Len(widgets), c \in Widths } :
         1 <= t[2] /\ t[2] <= Len(objs[t[1]]) /\ objs[t[1]][t[2]].alive }
    \cup {Other}

get_selected_row(o, sel) ==
    IF sel = None THEN [val |-> -1, err |-> OK]
    ELSE IF sel = Other THEN [val |-> -1, err |-> OK]
    ELSE IF ~o[sel[1]][sel[2]].alive THEN [val |-> -1, err |-> "TclError"]
    ELSE IF o[sel[1]][sel[2]].row = NoGrid THEN [val |-> -1, err |-> OK]
    ELSE [val |-> o[sel[1]][sel[2]].row - 1, err |-> OK]

\* for widget in self.table.widgets[row]: widget.configure(bg=color)
RECURSIVE MarkWidgets(_, _, _, _)
MarkWidgets(o, rid, c, color) ==
    IF c > Len(o[rid]) THEN [objs |-> o, err |-> OK]
    ELSE IF ~o[rid][c].alive THEN [objs |-> o, err |-> "TclError"]
    ELSE MarkWidgets([o EXCEPT ![rid][c].bg = color], rid, c + 1, color)

mark_row(o, w, row, color) ==
    LET i == PyIndex(row, Len(w)) IN
    IF i = 0 THEN [objs |-> o, err |-> "IndexError"]
    ELSE MarkWidgets(o, w[i], 1, color)

mark_selected(o, w, sel, color) ==
    LET r == get_selected_row(o, sel) IN
    IF r.err # OK THEN [objs |-> o, err |-> r.err]
    ELSE IF r.val < 1 THEN [objs |-> o, err |-> OK]
    ELSE mark_row(o, w, r.val, color)

Vw(o, sel, menu, e) == [objs |-> o, sel |-> sel, menu |-> menu, err |-> e]

\* _select_widget without the unmarking of the old selection
select_widget_no_unmark(o, w, sel, mark, menu, target) ==
    LET r == get_selected_row(o, target) IN
    IF r.err # OK THEN Vw(o, target, menu, r.err)
    ELSE LET sel2 == IF r.val < 1 THEN sel ELSE target
             s2 == IF mark
                   THEN mark_selected(o, w, sel2, COLOR_SELECTED)
                   ELSE [objs |-> o, err |-> OK]
         IN IF s2.err # OK THEN Vw(s2.objs, sel2, menu, s2.err)
            ELSE Vw(s2.objs, sel2, FALSE, OK)

\* _select_widget without the revert of an invalid selection
select_widget_no_revert(o, w, sel, mark, menu, target) ==
    LET s1 == IF mark THEN mark_selected(o, w, sel, COLOR_UNSELECTED)
              ELSE [objs |-> o, err |-> OK]
    IN
    IF s1.err # OK THEN Vw(s1.objs, sel, menu, s1.err)
    ELSE LET s2 == IF mark
                   THEN mark_selected(s1.objs, w, target, COLOR_SELECTED)
                   ELSE [objs |-> s1.objs, err |-> OK]
         IN IF s2.err # OK THEN Vw(s2.objs, target, menu, s2.err)
            ELSE Vw(s2.objs, target, FALSE, OK)

select_widget(o, w, sel, mark, menu, target) ==
    LET s1 == IF mark THEN mark_selected(o, w, sel, COLOR_UNSELECTED)
              ELSE [objs |-> o, err |-> OK]
    IN
    IF s1.err # OK THEN Vw(s1.objs, sel, menu, s1.err)
    ELSE LET r == get_selected_row(s1.objs, target) IN
         IF r.err # OK THEN Vw(s1.objs, target, menu, r.err)
         ELSE LET sel2 == IF r.val < 1 THEN sel ELSE target
                  s2 == IF mark
                        THEN mark_selected(s1.objs, w, sel2, COLOR_SELECTED)
                        ELSE [objs |-> s1.objs, err |-> OK]
              IN IF s2.err # OK THEN Vw(s2.objs, sel2, menu, s2.err)
                 ELSE Vw(s2.objs, sel2, FALSE, OK)

show_menu(o, w, sel, mark, menu, target) ==
    LET s == select_widget(o, w, sel, mark, menu, target) IN
    IF s.err # OK THEN s ELSE Vw(s.objs, s.sel, TRUE, OK)

set_title(o, w, title_texts) ==
    LET s == replace_row(o, w, 0, get_title_row_generator(Len(title_texts)))
    IN IF s.err # OK THEN s
       ELSE set_row(s.objs, s.widgets, 0, title_texts)

\* _new_row_generator / _insert_row_generator of set_data, for the captured
\* column count
RowGenerator(ro, columns) ==
    IF ro THEN get_readonly_row_generator(columns)
    ELSE get_input_row_generator_centered(columns)

\* the loop of set_data writing row k of the data to table row k - 1
RECURSIVE FillData_no_title_offset(_, _, _, _, _)
FillData_no_title_offset(o, w, gen, data_rows, k) ==
    IF k > Len(data_rows) THEN St(o, w, OK)
    ELSE LET s == add_row(o, w, gen) IN
         IF s.err # OK THEN s
         ELSE LET t == set_row(s.objs, s.widgets, k - 1, data_rows[k])
              IN IF t.err # OK THEN t
                 ELSE FillData_no_title_offset(t.objs, t.widgets, gen,
                                               data_rows, k + 1)

\* for row in data_rows: new_row_generator(); set_row(row_count - 1, row)
RECURSIVE FillData(_, _, _, _, _)
FillData(o, w, gen, data_rows, k) ==
    IF k > Len(data_rows) THEN St(o, w, OK)
    ELSE LET s == add_row(o, w, gen) IN
         IF s.err # OK THEN s
         ELSE LET t == set_row(s.objs, s.widgets,
                               get_row_count(s.widgets) - 1, data_rows[k])
              IN IF t.err # OK THEN t
                 ELSE FillData(t.objs, t.widgets, gen, data_rows, k + 1)

\* the title texts and the data rows handed to the view
Titles == UNION { [1..k -> {"x"}] : k \in Widths }

DataRows == UNION { [1..k -> Titles] : k \in 0..2 }

\* SimpleTable.__init__: a table with the placeholder title row
Init ==
    /\ objs = add_row(<< >>, << >>, get_title_row_generator(0)).objs
    /\ widgets = add_row(<< >>, << >>, get_title_row_generator(0)).widgets
    /\ last = Call("init", 0, 0, NoGen, << >>, OK)
    /\ snap = Idle
    /\ writes = [set |-> 0, set_row |-> 0]
    /\ selected_widget = None
    /\ new_row_generator = None
    /\ insert_row_generator = None
    /\ read_only \in BOOLEAN
    /\ mark_selected_row \in BOOLEAN
    /\ right_click_menu = FALSE

\* <Button-1>
Select(target) ==
    /\ LET s == select_widget(objs, widgets, selected_widget,
                              mark_selected_row, right_click_menu, target)
       IN /\ objs' = s.objs
          /\ selected_widget' = s.sel
          /\ right_click_menu' = s.menu
          /\ last' = ViewCall("select", target, << >>, << >>, s.err)
    /\ snap' = Idle
    /\ UNCHANGED <<widgets, new_row_generator, insert_row_generator,
                   read_only, mark_selected_row, writes>>

\* <Button-3>
ShowMenu(target) ==
    /\ LET s == show_menu(objs, widgets, selected_widget,
                          mark_selected_row, right_click_menu, target)
       IN /\ objs' = s.objs
          /\ selected_widget' = s.sel
          /\ right_click_menu' = s.menu
          /\ last' = ViewCall("show_menu", target, << >>, << >>, s.err)
    /\ snap' = Idle
    /\ UNCHANGED <<widgets, new_row_generator, insert_row_generator,
                   read_only, mark_selected_row, writes>>

SetTitle(title_texts) ==
    /\ Len(objs) < MaxViewCreated
    /\ LET s == set_title(objs, widgets, title_texts) IN
       /\ objs' = s.objs
       /\ widgets' = s.widgets
       /\ last' = ViewCall("set_title", None, title_texts, << >>, s.err)
    /\ snap' = Idle
    /\ UNCHANGED viewvars

\* set_data(data_rows): len(data_rows[0]) raises IndexError on an empty
\* list, before the generators are captured
SetDataCall(data_rows) ==
    /\ IF Len(data_rows) = 0
       THEN /\ last' = ViewCall("set_data", None, << >>, data_rows, "IndexError")
            /\ UNCHANGED <<objs, widgets, new_row_generator,
                           insert_row_generator>>
       ELSE LET columns == Len(data_rows[1])
                s == FillData(objs, widgets, RowGenerator(read_only, columns),
                              data_rows, 1)
            IN /\ new_row_generator' = <<columns>>
               /\ insert_row_generator' = <<columns>>
               /\ objs' = s.objs
               /\ widgets' = s.widgets
               /\ last' = ViewCall("set_data", None, << >>, data_rows, s.err)
    /\ snap' = Idle
    /\ UNCHANGED <<selected_widget, read_only, mark_selected_row,
                   right_click_menu, writes>>

SetData(data_rows) ==
    /\ Len(objs) + Len(data_rows) <= MaxViewCreated
    /\ Len(widgets) + Len(data_rows) <= MaxRows
    /\ SetDataCall(data_rows)

\* the New button and the New menu entry
AddNewRow ==
    /\ IF new_row_generator = None
       THEN /\ last' = ViewCall("add_new_row", None, << >>, << >>, OK)
            /\ UNCHANGED <<objs, widgets>>
       ELSE /\ Len(objs) < MaxViewCreated /\ Len(widgets) < MaxRows
            /\ LET s == add_row(objs, widgets,
                                RowGenerator(read_only, new_row_generator[1]))
               IN /\ objs' = s.objs
                  /\ widgets' = s.widgets
                  /\ last' = ViewCall("add_new_row", None, << >>, << >>, s.err)
    /\ snap' = Idle
    /\ UNCHANGED viewvars

\* _delete_row removing the row above the selected one
DeleteSelected_row_above ==
    /\ LET r == get_selected_row(objs, selected_widget) IN
       IF r.err # OK \/ r.val < 1
       THEN /\ last' = ViewCall("delete_selected", None, << >>, << >>, r.err)
            /\ UNCHANGED <<objs, widgets, selected_widget>>
       ELSE LET s == remove_row(objs, widgets, r.val - 1) IN
            /\ objs' = s.objs
            /\ widgets' = s.widgets
            /\ selected_widget' = None
            /\ last' = ViewCall("delete_selected", None, << >>, << >>, s.err)
    /\ snap' = Idle
    /\ UNCHANGED <<new_row_generator, insert_row_generator, read_only,
                   mark_selected_row, right_click_menu, writes>>

\* _delete_row without the reset of selected_widget
DeleteSelected_keep_selection ==
    /\ LET r == get_selected_row(objs, selected_widget) IN
       IF r.err # OK \/ r.val < 1
       THEN /\ last' = ViewCall("delete_selected", None, << >>, << >>, r.err)
            /\ UNCHANGED <<objs, widgets>>
       ELSE LET s == remove_row(objs, widgets, r.val) IN
            /\ objs' = s.objs
            /\ widgets' = s.widgets
            /\ last' = ViewCall("delete_selected", None, << >>, << >>, s.err)
    /\ snap' = Idle
    /\ UNCHANGED viewvars

\* _delete_row removing the last row instead of the selected one
DeleteSelected_last_row ==
    /\ LET r == get_selected_row(objs, selected_widget) IN
       IF r.err # OK \/ r.val < 1
       THEN /\ last' = ViewCall("delete_selected", None, << >>, << >>, r.err)
            /\ UNCHANGED <<objs, widgets, selected_widget>>
       ELSE LET s == remove_row(objs, widgets, get_row_count(widgets) - 1) IN
            /\ objs' = s.objs
            /\ widgets' = s.widgets
            /\ selected_widget' = None
            /\ last' = ViewCall("delete_selected", None, << >>, << >>, s.err)
    /\ snap' = Idle
    /\ UNCHANGED <<new_row_generator, insert_row_generator, read_only,
                   mark_selected_row, right_click_menu, writes>>

\* the Delete menu entry
DeleteSelected ==
    /\ LET r == get_selected_row(objs, selected_widget) IN
       IF r.err # OK
       THEN /\ last' = ViewCall("delete_selected", None, << >>, << >>, r.err)
            /\ UNCHANGED <<objs, widgets, selected_widget>>
       ELSE IF r.val < 1
       THEN /\ last' = ViewCall("delete_selected", None, << >>, << >>, OK)
            /\ UNCHANGED <<objs, widgets, selected_widget>>
       ELSE LET s == remove_row(objs, widgets, r.val) IN
            /\ objs' = s.objs
            /\ widgets' = s.widgets
            /\ selected_widget' =
                  IF s.err = OK THEN None ELSE selected_widget
            /\ last' = ViewCall("delete_selected", None, << >>, << >>, s.err)
    /\ snap' = Idle
    /\ UNCHANGED <<new_row_generator, insert_row_generator, read_only,
                   mark_selected_row, right_click_menu, writes>>

\* _insert_row moving the selection to the row it inserted
InsertBeforeSelected_select_new ==
    /\ LET r == get_selected_row(objs, selected_widget) IN
       IF new_row_generator = None \/ r.err # OK \/ r.val < 1
       THEN /\ last' = ViewCall("insert_before_selected", None, << >>, << >>,
                                 r.err)
            /\ UNCHANGED <<objs, widgets, selected_widget>>
       ELSE /\ Len(objs) < MaxViewCreated /\ Len(widgets) < MaxRows
            /\ LET s == insert_row(objs, widgets, r.val,
                                   RowGenerator(read_only,
                                                insert_row_generator[1]))
               IN /\ objs' = s.objs
                  /\ widgets' = s.widgets
                  /\ selected_widget' =
                        IF Len(s.objs[Len(s.objs)]) > 0
                        THEN <<Len(s.objs), 1>> ELSE selected_widget
                  /\ last' = ViewCall("insert_before_selected", None,
                                      << >>, << >>, s.err)
    /\ snap' = Idle
    /\ UNCHANGED <<new_row_generator, insert_row_generator, read_only,
                   mark_selected_row, right_click_menu, writes>>

\* _insert_row inserting behind the selected row
InsertBeforeSelected_behind ==
    /\ IF new_row_generator = None
       THEN /\ last' = ViewCall("insert_before_selected", None, << >>, << >>, OK)
            /\ UNCHANGED <<objs, widgets>>
       ELSE LET r == get_selected_row(objs, selected_widget) IN
            IF r.err # OK
            THEN /\ last' = ViewCall("insert_before_selected", None, << >>, << >>,
                                     r.err)
                 /\ UNCHANGED <<objs, widgets>>
            ELSE IF r.val < 1
            THEN /\ last' = ViewCall("insert_before_selected", None, << >>, << >>,
                                     OK)
                 /\ UNCHANGED <<objs, widgets>>
            ELSE /\ Len(objs) < MaxViewCreated /\ Len(widgets) < MaxRows
                 /\ LET s == insert_row(objs, widgets, r.val + 1,
                                        RowGenerator(read_only,
                                                     insert_row_generator[1]))
                    IN /\ objs' = s.objs
                       /\ widgets' = s.widgets
                       /\ last' = ViewCall("insert_before_selected", None,
                                           << >>, << >>, s.err)
    /\ snap' = Idle
    /\ UNCHANGED viewvars

\* the Insert before menu entry
InsertBeforeSelected ==
    /\ IF new_row_generator = None
       THEN /\ last' = ViewCall("insert_before_selected", None, << >>, << >>, OK)
            /\ UNCHANGED <<objs, widgets>>
       ELSE LET r == get_selected_row(objs, selected_widget) IN
            IF r.err # OK
            THEN /\ last' = ViewCall("insert_before_selected", None, << >>, << >>,
                                     r.err)
                 /\ UNCHANGED <<objs, widgets>>
            ELSE IF r.val < 1
            THEN /\ last' = ViewCall("insert_before_selected", None, << >>, << >>,
                                     OK)
                 /\ UNCHANGED <<objs, widgets>>
            ELSE /\ Len(objs) < MaxViewCreated /\ Len(widgets) < MaxRows
                 /\ LET s == insert_row(objs, widgets, r.val,
                                        RowGenerator(read_only,
                                                     insert_row_generator[1]))
                    IN /\ objs' = s.objs
                       /\ widgets' = s.widgets
                       /\ last' = ViewCall("insert_before_selected", None,
                                           << >>, << >>, s.err)
    /\ snap' = Idle
    /\ UNCHANGED viewvars

Next ==
    \/ \E target \in Targets : Select(target)
    \/ \E target \in Targets : ShowMenu(target)
    \/ \E title_texts \in Titles : SetTitle(title_texts)
    \/ \E data_rows \in DataRows : SetData(data_rows)
    \/ AddNewRow
    \/ DeleteSelected
    \/ InsertBeforeSelected

Spec == Init /\ [][Next]_vars

\* a freshly created view that gets its title and then its data
FreshTexts == UNION { [1..k -> Values] : k \in Widths }

FreshRows == UNION { [1..k -> FreshTexts] : k \in 0..MaxData }

FreshSetTitle(title_texts) ==
    /\ last.op = "init"
    /\ SetTitle(title_texts)

FreshSetData(data_rows) ==
    /\ last.op = "set_title"
    /\ SetDataCall(data_rows)

NextFresh ==
    \/ \E title_texts \in FreshTexts : FreshSetTitle(title_texts)
    \/ \E data_rows \in FreshRows : FreshSetData(data_rows)

SpecFresh == Init /\ [][NextFresh]_vars

\* ------------------------------------------------------------ claims
Cols(o, w, row) == Len(o[w[row + 1]])

\* the widgets of the row at 1-based position i are alive and on grid row i
RowOnGrid(o, w, i) ==
    \A c \in 1..Len(o[w[i]]) : o[w[i]][c].alive /\ o[w[i]][c].row = i

GridConsistent(o, w) == \A i \in 1..Len(w) : RowOnGrid(o, w, i)

\* the grid rows on which some live widget is placed
PositionsInUse ==
    UNION { { objs[rid][c].row : c \in 1..Len(objs[rid]) } :
            rid \in 1..Len(objs) } \ {NoGrid}

\* every cell of every row object that existed before the step is the same
\* widget with the same text
CellsKept ==
    \A rid \in 1..Len(objs) :
       /\ Len(objs'[rid]) = Len(objs[rid])
       /\ \A c \in 1..Len(objs[rid]) :
             objs[rid][c].alive /\ objs'[rid][c].alive =>
                /\ objs'[rid][c].text = objs[rid][c].text
                /\ objs'[rid][c].cls = objs[rid][c].cls

\* C1: after every in-range add_row / insert_row / remove_row / replace_row
\* on a Table that started empty, the row at logical index i is on grid
\* position i + 1, and the grid positions in use lie in 1..row_count.
C1_GridLockstep ==
    /\ GridConsistent(objs, widgets)
    /\ PositionsInUse \subseteq 1..Len(widgets)
    /\ \A i, j \in 1..Len(widgets) : i # j => widgets[i] # widgets[j]

C1_Witness ==
    /\ last.op = "remove_row" /\ last.row = 0 /\ last.err = OK
    /\ Len(widgets) = 2
    /\ \A i \in 1..2 : Len(objs[widgets[i]]) > 0

\* C2: insert_row with index < 0 or index > row_count() raises IndexError
\* and changes neither the row sequence nor any widget.
C2_InsertOutOfRangeFails ==
    [][(last'.op = "insert_row"
          /\ (last'.row < 0 \/ last'.row > Len(widgets)))
       => (last'.err = "IndexError" /\ widgets' = widgets /\ objs' = objs)]_vars

\* C3: remove_row with index < 0 or index >= row_count() raises IndexError:
\* nothing destroyed, nothing removed, nothing regridded.
C3_RemoveInvalidFails ==
    [][(last'.op = "remove_row"
          /\ (last'.row < 0 \/ last'.row >= Len(widgets)))
       => (last'.err = "IndexError" /\ widgets' = widgets /\ objs' = objs)]_vars

\* C4: a mutation either completes with rows and grid positions consistent
\* or raises with rows, grid positions and cell contents as before the call.
C4_AllOrNothing ==
    [][(last'.op \in {"insert_row", "remove_row", "replace_row", "set",
                      "set_row"})
       => IF last'.err = OK
          THEN GridConsistent(objs', widgets')
          ELSE widgets' = widgets /\ objs' = objs]_vars

\* C5: set_row with more values than the row has columns raises nothing and
\* leaves the row holding the first column_count values.
C5_LongSetRowLenient ==
    [][(last'.op = "set_row" /\ last'.row \in RowIdx
          /\ Len(last'.values) > Cols(objs, widgets, last'.row))
       => /\ last'.err = OK
          /\ get_row(objs', widgets', last'.row) =
               [val |-> SubSeq(last'.values, 1,
                               Cols(objs, widgets, last'.row)),
                err |-> OK]]_vars

\* C6: set_row(r, values) with len(values) <= column count, then get_row(r),
\* gives values followed by the old trailing cells; other rows as before.
C6_SetRowGetRow ==
    [][(last'.op = "set_row" /\ last'.row \in RowIdx
          /\ Len(last'.values) <= Cols(objs, widgets, last'.row))
       => /\ last'.err = OK
          /\ get_row(objs', widgets', last'.row) =
               [val |-> last'.values \o
                        SubSeq(get_row(objs, widgets, last'.row).val,
                               Len(last'.values) + 1,
                               Cols(objs, widgets, last'.row)),
                err |-> OK]
          /\ \A r \in RowIdx \ {last'.row} :
                get_row(objs', widgets', r) = get_row(objs, widgets, r)]_vars

C6_Witness ==
    /\ last.op = "set_row" /\ last.err = OK
    /\ last.values = << "" >>
    /\ last.row \in RowIdx
    /\ get_row(objs, widgets, last.row).val = << "", "x" >>

\* C7: insert_row(index, g) directly followed by remove_row(index), index in
\* 0..row_count, gives back the row sequence and every pre-existing widget
\* (grid row, text) as before the insert.
C7_InsertRemoveInverse ==
    snap.state = "undone" =>
       /\ last.err = OK
       /\ widgets = snap.widgets
       /\ \A rid \in 1..Len(snap.objs) : objs[rid] = snap.objs[rid]

C7_Witness ==
    /\ snap.state = "undone" /\ snap.row = 1
    /\ Len(widgets) = 2
    /\ \A i \in 1..2 : Len(objs[widgets[i]]) > 0

\* C8: insert_row(index, g), 0 <= index <= row_count: one row more, the new
\* row object at `index`, rows before it stay, rows from it on move one
\* index down, all with the same cells and texts.
C8_InsertShifts ==
    [][(last'.op = "insert_row" /\ last'.row \in InsertIdx)
       => /\ last'.err = OK
          /\ Len(widgets') = Len(widgets) + 1
          /\ Len(objs') = Len(objs) + 1
          /\ widgets'[last'.row + 1] = Len(objs')
          /\ \A j \in 1..Len(widgets) :
                IF j <= last'.row THEN widgets'[j] = widgets[j]
                ELSE widgets'[j + 1] = widgets[j]
          /\ CellsKept]_vars

C8_Witness ==
    /\ last.op = "insert_row" /\ last.row = 1 /\ last.err = OK
    /\ Len(widgets) = 3
    /\ \E c \in 1..Len(objs[widgets[3]]) : objs[widgets[3]][c].text = "x"

\* C9: remove_row(index), 0 <= index < row_count: one row fewer, rows before
\* stay, rows after move one index and one grid position up, same cells and
\* texts.
C9_RemoveShifts ==
    [][(last'.op = "remove_row" /\ last'.row \in RowIdx)
       => /\ last'.err = OK
          /\ Len(widgets') = Len(widgets) - 1
          /\ \A j \in 1..Len(widgets) :
                /\ j <= last'.row => widgets'[j] = widgets[j]
                /\ j > last'.row + 1 =>
                      /\ widgets'[j - 1] = widgets[j]
                      /\ \A c \in 1..Len(objs[widgets[j]]) :
                            objs'[widgets[j]][c].row =
                               objs[widgets[j]][c].row - 1
          /\ \A c \in 1..Len(objs[widgets[last'.row + 1]]) :
                ~objs'[widgets[last'.row + 1]][c].alive
          /\ CellsKept]_vars

C9_Witness ==
    /\ last.op = "remove_row" /\ last.row = 1 /\ last.err = OK
    /\ Len(widgets) = 2
    /\ \E c \in 1..Len(objs[widgets[2]]) : objs[widgets[2]][c].text = "x"

\* C10: a select event whose target resolves to the title row (0) or to no
\* row (-1) leaves selected_widget and get_selected_row() as they were; one
\* whose target resolves to k >= 1 makes get_selected_row() return k.
C10_SelectFrame ==
    [][last'.op = "select"
       => LET k == get_selected_row(objs, last'.target).val IN
          /\ last'.err = OK
          /\ IF k < 1
             THEN /\ selected_widget' = selected_widget
                  /\ get_selected_row(objs', selected_widget') =
                        get_selected_row(objs, selected_widget)
             ELSE get_selected_row(objs', selected_widget') =
                     [val |-> k, err |-> OK]]_vars

C10_Witness ==
    /\ last.op = "select" /\ last.err = OK
    /\ get_selected_row(objs, last.target).val = 0
    /\ get_selected_row(objs, selected_widget).val >= 1

\* C11: in every state of the view get_selected_row() is -1 or an index s
\* with 1 <= s < row count, whose row holds the selected widget; it is never
\* 0 and never the index of a row that is gone.
C11_SelectionInRange ==
    LET r == get_selected_row(objs, selected_widget) IN
    /\ r.err = OK
    /\ \/ r.val = -1
       \/ /\ 1 <= r.val /\ r.val < get_row_count(widgets)
          /\ selected_widget[1] = widgets[r.val + 1]

C11_Witness ==
    /\ last.op = "insert_before_selected" /\ last.err = OK
    /\ get_selected_row(objs, selected_widget).val = 2
    /\ get_row_count(widgets) = 3

\* C12: delete_selected with row index >= 1 selected removes exactly that
\* row (one row fewer, the other rows with the same live cells and texts)
\* and leaves no selection; with no selection it changes nothing: rows,
\* cells, texts, grid positions and selection stay.
C12_DeleteSelected ==
    [][last'.op = "delete_selected"
       => LET r == get_selected_row(objs, selected_widget) IN
          /\ last'.err = OK
          /\ IF r.val >= 1
             THEN /\ Len(widgets') = Len(widgets) - 1
                  /\ \A j \in 1..Len(widgets) :
                        /\ j < r.val + 1 => widgets'[j] = widgets[j]
                        /\ j > r.val + 1 => widgets'[j - 1] = widgets[j]
                        /\ j # r.val + 1 =>
                              \A c \in 1..Len(objs[widgets[j]]) :
                                 /\ objs'[widgets[j]][c].alive
                                 /\ objs'[widgets[j]][c].text =
                                       objs[widgets[j]][c].text
                  /\ selected_widget' = None
                  /\ get_selected_row(objs', selected_widget').val = -1
             ELSE /\ r.val = -1
                  /\ UNCHANGED <<objs, widgets, selected_widget>>]_vars

C12_Witness ==
    /\ last.op = "delete_selected" /\ last.err = OK
    /\ selected_widget = None
    /\ Len(objs) = 3 /\ widgets = <<1, 3>>
    /\ Len(objs[2]) = 1 /\ Len(objs[3]) = 1
    /\ ~objs[2][1].alive
    /\ objs[3][1].text = "x"

\* C13 as stated: insert_before_selected with row index >= 1 selected puts
\* one new row at that index, and get_selected_row() returns the same
\* number after the insert as before.
C13_InsertKeepsIndex ==
    [][last'.op = "insert_before_selected"
       => LET r == get_selected_row(objs, selected_widget) IN
          r.val >= 1 =>
             /\ last'.err = OK
             /\ Len(widgets') = Len(widgets) + 1
             /\ widgets'[r.val + 1] = Len(objs')
             /\ get_selected_row(objs', selected_widget').val = r.val]_vars

\* C13 amended: insert_before_selected with row index >= 1 selected puts
\* one new row at that index and keeps selected_widget, whose row moved one
\* index down: get_selected_row() returns index + 1 after the insert.
C13_InsertFollowsRow ==
    [][last'.op = "insert_before_selected"
       => LET r == get_selected_row(objs, selected_widget) IN
          r.val >= 1 =>
             /\ last'.err = OK
             /\ Len(widgets') = Len(widgets) + 1
             /\ widgets'[r.val + 1] = Len(objs')
             /\ selected_widget' = selected_widget
             /\ widgets'[r.val + 2] = selected_widget[1]
             /\ get_selected_row(objs', selected_widget').val = r.val + 1]_vars

C13_Witness ==
    /\ last.op = "insert_before_selected" /\ last.err = OK
    /\ Len(widgets) = 3 /\ widgets[2] = Len(objs)
    /\ selected_widget # None /\ selected_widget[1] = widgets[3]
    /\ get_selected_row(objs, selected_widget).val = 2

\* C14: add_new_row with no generator captured by set_data changes nothing
\* and raises nothing; with one captured it appends exactly one row at
\* index old row count, on grid position old row count + 1, with the
\* captured column count and blank cells, and leaves the existing rows and
\* the selection as they were.
C14_AddNewRow ==
    [][last'.op = "add_new_row"
       => /\ last'.err = OK
          /\ selected_widget' = selected_widget
          /\ IF new_row_generator = None
             THEN UNCHANGED <<objs, widgets>>
             ELSE /\ Len(objs') = Len(objs) + 1
                  /\ SubSeq(objs', 1, Len(objs)) = objs
                  /\ widgets' = Append(widgets, Len(objs'))
                  /\ Len(objs'[Len(objs')]) = new_row_generator[1]
                  /\ \A c \in 1..Len(objs'[Len(objs')]) :
                        /\ objs'[Len(objs')][c].alive
                        /\ objs'[Len(objs')][c].row = Len(widgets) + 1
                        /\ objs'[Len(objs')][c].text = ""]_vars

C14_Witness ==
    /\ last.op = "add_new_row" /\ last.err = OK
    /\ new_row_generator = <<2>>
    /\ Len(widgets) = 3 /\ widgets[3] = Len(objs)
    /\ Len(objs[widgets[3]]) = 2 /\ Len(objs[widgets[2]]) = 2
    /\ objs[widgets[3]][1].row = 3 /\ objs[widgets[3]][1].text = ""
    /\ objs[widgets[2]][1].text = "x"

\* C15: on a fresh view, set_title(texts) then set_data(rows), rows not
\* empty and all as long as rows[0]: row count is 1 + len(rows), get_row(0)
\* is texts and get_row(k) is rows[k-1] for k in 1..len(rows).
C15_TitleThenData ==
    [][(/\ last.op = "set_title" /\ last'.op = "set_data"
        /\ Len(last'.data) > 0
        /\ \A k \in 1..Len(last'.data) :
              Len(last'.data[k]) = Len(last'.data[1]))
       => /\ last.err = OK /\ last'.err = OK
          /\ get_row_count(widgets') = 1 + Len(last'.data)
          /\ get_row(objs', widgets', 0) = [val |-> last.values, err |-> OK]
          /\ \A k \in 1..Len(last'.data) :
                get_row(objs', widgets', k) =
                   [val |-> last'.data[k], err |-> OK]]_vars

C15_Witness ==
    /\ last.op = "set_data" /\ last.err = OK
    /\ last.data = << <<"x", "">>, <<"", "x">> >>
    /\ get_row(objs, widgets, 0).val = << "x" >>
    /\ get_row(objs, widgets, 2).val = << "", "x" >>

\* C16: in every state of the view all rows of the table, the title row
\* included, have the same number of cells.
C16_UniformColumns ==
    \A i, j \in 1..Len(widgets) :
       Len(objs[widgets[i]]) = Len(objs[widgets[j]])

\* C17: select events, add_new_row, insert_before_selected and
\* delete_selected raise nothing and leave the title row alone: the table
\* keeps at least one row and index 0 holds the same row object with the
\* same cells (text, grid position, colour) as before the event.
C17_TitleRowKept ==
    [][last'.op \in {"select", "show_menu", "add_new_row",
                     "insert_before_selected", "delete_selected"}
       => /\ last'.err = OK
          /\ get_row_count(widgets') >= 1
          /\ widgets'[1] = widgets[1]
          /\ objs'[widgets[1]] = objs[widgets[1]]
          /\ \A c \in 1..Len(objs[widgets[1]]) :
                objs'[widgets[1]][c].alive /\ objs'[widgets[1]][c].row = 1]_vars

C17_Witness ==
    /\ last.op = "delete_selected" /\ last.err = OK
    /\ Len(objs) = 3 /\ widgets = <<2>>
    /\ Len(objs[2]) = 1 /\ Len(objs[3]) = 1
    /\ objs[2][1].text = "x" /\ objs[2][1].row = 1
    /\ ~objs[3][1].alive

\* the logical indices of the rows with a cell in the selected colour
MarkedRows(o, w) ==
    { j \in 0..(Len(w) - 1) :
         \E c \in 1..Len(o[w[j + 1]]) : o[w[j + 1]][c].bg = COLOR_SELECTED }

\* C18: with mark_selected_row set, after every select event, add_new_row,
\* insert_before_selected and delete_selected the rows in the selected
\* colour are exactly the selected row (all its cells), or none when no row
\* is selected; a select of another row leaves the row selected before in
\* the unselected colour; the title row is never marked.
C18_MarkFollowsSelection ==
    [][(mark_selected_row
          /\ last'.op \in {"select", "show_menu", "add_new_row",
                            "insert_before_selected", "delete_selected"})
       => LET old == get_selected_row(objs, selected_widget).val
              new == get_selected_row(objs', selected_widget').val
          IN /\ last'.err = OK
             /\ MarkedRows(objs', widgets') =
                   IF new >= 1 THEN {new} ELSE {}
             /\ new >= 1 =>
                   \A c \in 1..Len(objs'[widgets'[new + 1]]) :
                      objs'[widgets'[new + 1]][c].bg = COLOR_SELECTED
             /\ (last'.op = "select" /\ old >= 1
                   /\ selected_widget'[1] # selected_widget[1]) =>
                   \A c \in 1..Len(objs[selected_widget[1]]) :
                      objs'[selected_widget[1]][c].bg = COLOR_UNSELECTED]_vars

C18_Witness ==
    /\ mark_selected_row /\ last.op = "select" /\ last.err = OK
    /\ Len(widgets) = 3
    /\ get_selected_row(objs, selected_widget).val = 2
    /\ Len(objs[widgets[2]]) = 2 /\ Len(objs[widgets[3]]) = 2
    /\ \A c \in 1..2 : /\ objs[widgets[2]][c].bg = COLOR_UNSELECTED
                         /\ objs[widgets[3]][c].bg = COLOR_SELECTED

\* C19: no dangling cells: the cells created and not destroyed are exactly
\* the cells of the rows in Table.widgets, each row object is in the list at
\* most once, and no two live cells of different rows share a grid slot.
C19_NoDanglingCells ==
    /\ \A rid \in 1..Len(objs) : \A c \in 1..Len(objs[rid]) :
          objs[rid][c].alive <=> (\E i \in 1..Len(widgets) : widgets[i] = rid)
    /\ \A i, j \in 1..Len(widgets) : widgets[i] = widgets[j] => i = j
    /\ \A r1, r2 \in 1..Len(objs) :
          \A c \in 1..Min(Len(objs[r1]), Len(objs[r2])) :
             (r1 # r2 /\ objs[r1][c].alive /\ objs[r2][c].alive)
                => objs[r1][c].row # objs[r2][c].row

C19_Witness ==
    /\ last.op = "replace_row" /\ last.row = 0 /\ last.err = OK
    /\ Len(objs) = 3 /\ widgets = <<3, 2>>
    /\ Len(objs[1]) = 2 /\ Len(objs[2]) = 2 /\ Len(objs[3]) = 2
    /\ ~objs[1][1].alive /\ ~objs[1][2].alive
    /\ objs[3][2].row = 1

\* C20: replace_row(index, g), 0 <= index < row_count: the row count stays,
\* the new row object is at `index` with its cells on grid position
\* index + 1, and every other row keeps its index and its cells (grid
\* position, text) as they were.
C20_ReplaceInPlace ==
    [][(last'.op = "replace_row" /\ last'.row \in RowIdx)
       => /\ last'.err = OK
          /\ Len(widgets') = Len(widgets)
          /\ Len(objs') = Len(objs) + 1
          /\ widgets'[last'.row + 1] = Len(objs')
          /\ \A c \in 1..Len(objs'[Len(objs')]) :
                /\ objs'[Len(objs')][c].alive
                /\ objs'[Len(objs')][c].row = last'.row + 1
          /\ \A j \in 1..Len(widgets) :
                j # last'.row + 1 =>
                   /\ widgets'[j] = widgets[j]
                   /\ objs'[widgets[j]] = objs[widgets[j]]]_vars

C20_Witness ==
    /\ last.op = "replace_row" /\ last.row = 1 /\ last.err = OK
    /\ Len(objs) = 3 /\ widgets = <<1, 3>>
    /\ Len(objs[1]) = 1 /\ Len(objs[3]) = 2
    /\ objs[1][1].text = "x" /\ objs[1][1].row = 1
    /\ objs[3][1].row = 2

\* the logical index of row object rid in the row list w, -1 when absent
IndexOfRow(w, rid) ==
    IF \E i \in 1..Len(w) : w[i] = rid
    THEN (CHOOSE i \in 1..Len(w) : w[i] = rid) - 1
    ELSE -1

\* C21: the selection follows the selected row: with a row R >= 1 selected,
\* every add_new_row and insert_before_selected keeps selected_widget, and
\* get_selected_row() is the index R has in the table afterwards: the old
\* index after add_new_row, the old index + 1 after insert_before_selected.
C21_SelectionFollowsRow ==
    [][(last'.op \in {"add_new_row", "insert_before_selected"}
          /\ get_selected_row(objs, selected_widget).val >= 1)
       => LET old == get_selected_row(objs, selected_widget).val
              new == get_selected_row(objs', selected_widget')
          IN /\ last'.err = OK /\ new.err = OK
             /\ selected_widget' = selected_widget
             /\ IndexOfRow(widgets, selected_widget[1]) = old
             /\ new.val = IndexOfRow(widgets', selected_widget[1])
             /\ new.val = IF last'.op = "add_new_row" THEN old
                          ELSE old + 1]_vars

C21_Witness ==
    /\ last.op = "add_new_row" /\ last.err = OK
    /\ Len(widgets) = 3 /\ widgets[3] = Len(objs)
    /\ selected_widget # None /\ selected_widget[1] = widgets[2]
    /\ get_selected_row(objs, selected_widget).val = 1

====
